---- MODULE Spec2Model ----
(***************************************************************************)
(* Model of mapchete's process configuration (mapchete/config/__init__.py):*)
(* the zoom filter (_element_at_zoom, _raw_at_zoom), the tree codec        *)
(* (_flatten_tree, _unflatten_tree), the input registry                    *)
(* (MapcheteConfig.input, get_hash), the constructor's step sequence and   *)
(* the query methods params_at_zoom / area_at_zoom / bounds_at_zoom.       *)
(*                                                                         *)
(* Python values are tagged records.  A Python str is a sequence of        *)
(* one-character strings, so that strip/startswith/split/join/int are      *)
(* computed and not assumed.  A Python dict is an ordered sequence of      *)
(* <<key, value>> items (insertion order, as iterated by six.iteritems);   *)
(* dict equality (PyEq) ignores the order, json.dumps does not.            *)
(***************************************************************************)
EXTENDS Integers, Sequences, FiniteSets, TLC

VARIABLES
    codec,      \* tree codec run: [pc, tree, flat, out]
    zf,         \* zoom filter run: [pc, field, zoom, out]
    pc,         \* constructor position / object state
    args,       \* constructor arguments [doc, zoom, bounds, mode]
    writer_loads, \* number of calls of load_output_writer
    raw,        \* self._raw
    cfg,        \* attributes set by __init__ and the cached properties
    registry,   \* self.input: sequence of <<identity, handle>>
    loads,      \* sequence of declarations handed to load_input_reader
    steps,      \* constructor steps started so far
    error,      \* the exception that ended construction ("none" if none)
    cache,      \* [area: zoom -> geometry (partial), full: geometry or NoArea]
    last        \* the last query and its outcome

vars == <<codec, zf, pc, args, writer_loads, raw, cfg, registry, loads, steps, error, cache, last>>

-----------------------------------------------------------------------------
(* Bounds of the model *)

\* greatest zoom level of the zoom universe 0..MaxZoom
MaxZoom == 3
\* greatest nesting depth (path length) of the generated input trees
MaxDepth == 4
\* how often one configuration object may compute the union of its zoom areas
MaxUnions == 2

-----------------------------------------------------------------------------
(* Python values *)

Null == [t |-> "null"]
Str(s) == [t |-> "str", s |-> s]
PyInt(n) == [t |-> "int", n |-> n]
List(xs) == [t |-> "list", xs |-> xs]
Dict(items) == [t |-> "dict", items |-> items]
Handle(h) == [t |-> "handle", h |-> h]
\* an exception raised while evaluating an expression
Raise(kind) == [t |-> "error", kind |-> kind]

IsNull(v) == v.t = "null"
IsStr(v) == v.t = "str"
IsInt(v) == v.t = "int"
IsDict(v) == v.t = "dict"
IsErr(v) == v.t = "error"

\* the keys of a dict, in iteration order
DictKeys(d) == [i \in 1..Len(d.items) |-> d.items[i][1]]
\* key in d
DictHas(d, k) == \E i \in 1..Len(d.items) : d.items[i][1] = k
\* d[k]
DictGet(d, k) == d.items[CHOOSE i \in 1..Len(d.items) : d.items[i][1] = k][2]
\* d.get(k, default)
DictGetDefault(d, k, default) == IF DictHas(d, k) THEN DictGet(d, k) ELSE default
\* d[k] = v: replaces the value in place, or appends a new item
DictSet(d, k, v) ==
    IF DictHas(d, k)
    THEN Dict([i \in 1..Len(d.items) |->
                 IF d.items[i][1] = k THEN <<k, v>> ELSE d.items[i]])
    ELSE Dict(Append(d.items, <<k, v>>))

RECURSIVE DictUpdateFrom(_, _, _)
DictUpdateFrom(d, e, i) ==
    IF i > Len(e.items) THEN d
    ELSE DictUpdateFrom(DictSet(d, e.items[i][1], e.items[i][2]), e, i + 1)
\* d.update(e): an error unless both are dicts
DictUpdate(d, e) ==
    IF IsDict(d) /\ IsDict(e) THEN DictUpdateFrom(d, e, 1) ELSE Raise("TypeError")

\* Python's == on values: dicts compare as mappings, whatever their order
RECURSIVE PyEq(_, _)
PyEq(a, b) ==
    IF IsDict(a) /\ IsDict(b)
    THEN /\ Len(a.items) = Len(b.items)
         /\ \A i \in 1..Len(a.items) :
               /\ DictHas(b, a.items[i][1])
               /\ PyEq(a.items[i][2], DictGet(b, a.items[i][1]))
    ELSE a = b

-----------------------------------------------------------------------------
(* Python str methods, on sequences of characters *)

\* s.startswith(p)
StartsWith(s, p) == Len(s) >= Len(p) /\ SubSeq(s, 1, Len(p)) = p

RECURSIVE LStrip(_, _)
LStrip(s, chars) ==
    IF s # <<>> /\ s[1] \in chars THEN LStrip(Tail(s), chars) ELSE s
RECURSIVE RStrip(_, _)
RStrip(s, chars) ==
    IF s # <<>> /\ s[Len(s)] \in chars THEN RStrip(SubSeq(s, 1, Len(s) - 1), chars) ELSE s
\* s.strip(chars): drops leading and trailing characters that are in chars
Strip(s, chars) == RStrip(LStrip(s, chars), chars)
Whitespace == {" "}

\* sep.join(parts)
RECURSIVE Join(_, _)
Join(parts, sep) ==
    IF parts = <<>> THEN <<>>
    ELSE IF Len(parts) = 1 THEN parts[1]
    ELSE parts[1] \o sep \o Join(Tail(parts), sep)

\* s.split(c) for a one-character separator: "" splits to [""]
RECURSIVE Split(_, _)
Split(s, c) ==
    IF \A i \in 1..Len(s) : s[i] # c THEN <<s>>
    ELSE LET i == CHOOSE j \in 1..Len(s) :
                      s[j] = c /\ \A k \in 1..(j - 1) : s[k] # c
         IN  <<SubSeq(s, 1, i - 1)>> \o Split(SubSeq(s, i + 1, Len(s)), c)

Slash == <<"/">>

-----------------------------------------------------------------------------
(* _flatten_tree and _unflatten_tree *)

FORMAT == <<"f", "o", "r", "m", "a", "t">>

\* isinstance(value, dict) and "format" not in value
IsBranch(value) == IsDict(value) /\ ~DictHas(value, FORMAT)

RECURSIVE flatten_tree(_, _)
\* what one item of the tree adds to flat_tree
FlattenItem(new_path, value) ==
    IF IsBranch(value) THEN flatten_tree(value, new_path) ELSE << <<new_path, value>> >>
RECURSIVE FlattenItems(_, _, _)
FlattenItems(tree, old_path, i) ==
    IF i > Len(tree.items) THEN <<>>
    ELSE FlattenItem(IF old_path # <<>> THEN Join(<<old_path, tree.items[i][1]>>, Slash)
                     ELSE tree.items[i][1],
                     tree.items[i][2])
         \o FlattenItems(tree, old_path, i + 1)
\* the list of (path, value) pairs; old_path <<>> stands for None and for ""
flatten_tree(tree, old_path) == FlattenItems(tree, old_path, 1)

\* the dict a list of (key, value) pairs builds by successive assignment
RECURSIVE DictFromPairs(_, _, _)
DictFromPairs(pairs, i, d) ==
    IF i > Len(pairs) THEN d
    ELSE DictFromPairs(pairs, i + 1, DictSet(d, pairs[i][1], pairs[i][2]))

\* _unflatten_tree of the one-item dict {key: value}
RECURSIVE UnflattenOne(_, _)
UnflattenChain(key, value, path) ==
    IF Len(path) = 1 THEN Dict(<< <<key, value>> >>)
    ELSE Dict(<< <<path[1], UnflattenOne(Join(Tail(path), Slash), value)>> >>)
UnflattenOne(key, value) == UnflattenChain(key, value, Split(key, "/"))

\* tree[path[0]][path[1]].update(branch[path[1]]), put back into the tree
UpdateBranch(tree, path, sub, merged) ==
    IF IsErr(merged) THEN merged
    ELSE DictSet(tree, path[1], DictSet(sub, path[2], merged))

\* "add keys to existing dict": sub is tree[path[0]], branch the dict built from
\* the rest of the path
AddToBranch(tree, path, sub, branch) ==
    IF ~IsDict(sub) THEN Raise("TypeError")
    ELSE IF ~DictHas(sub, path[2])
    THEN DictSet(tree, path[1], DictSet(sub, path[2], DictGet(branch, path[2])))
    ELSE UpdateBranch(tree, path, sub,
                      DictUpdate(DictGet(sub, path[2]), DictGet(branch, path[2])))

\* the loop body of _unflatten_tree for the item (key, value), path = key.split("/")
UnflattenPath(tree, key, value, path) ==
    IF Len(path) = 1 THEN DictSet(tree, key, value)
    ELSE IF ~DictHas(tree, path[1])
    THEN DictSet(tree, path[1], UnflattenOne(Join(Tail(path), Slash), value))
    ELSE AddToBranch(tree, path, DictGet(tree, path[1]),
                     UnflattenOne(Join(Tail(path), Slash), value))

\* one pass of the loop of _unflatten_tree
UnflattenStep(tree, key, value) ==
    IF IsErr(tree) THEN tree ELSE UnflattenPath(tree, key, value, Split(key, "/"))

RECURSIVE UnflattenFrom(_, _, _)
UnflattenFrom(flat, i, tree) ==
    IF i > Len(flat.items) THEN tree
    ELSE UnflattenFrom(flat, i + 1, UnflattenStep(tree, flat.items[i][1], flat.items[i][2]))
\* _unflatten_tree(flat), flat a dict of path -> value
unflatten_tree(flat) == UnflattenFrom(flat, 1, Dict(<<>>))

-----------------------------------------------------------------------------
(* Input trees the checks draw from *)

KA == <<"a">>
KB == <<"b">>
PATH == <<"p", "a", "t", "h">>

\* k copies of the key "b"
RECURSIVE Spine(_)
Spine(k) == IF k = 0 THEN <<>> ELSE <<KB>> \o Spine(k - 1)
\* the leaf positions of a comb of depth d: b/b/.../b/a and b/b/.../b/b
CombPaths(d) == {Spine(k) \o <<x>> : k \in 0..(d - 1), x \in {KA, KB}}
IsPrefix(p, q) == Len(p) < Len(q) /\ SubSeq(q, 1, Len(p)) = p
PrefixFree(S) == \A p \in S, q \in S : ~IsPrefix(p, q)

\* a file name made of the keys on the way to the leaf
FileAt(path) == Str(<<"f">> \o Join(path, <<"_">>))
\* an abstract input: a mapping carrying the format marker
AbstractAt(path) == Dict(<< <<FORMAT, Str(<<"x">>)>>, <<PATH, FileAt(path)>> >>)
LeafStyles == {"files", "mixed"}
LeafAt(path, style) ==
    IF style = "files" THEN FileAt(path)
    ELSE IF path[Len(path)] = KB THEN FileAt(path)
    ELSE IF Len(path) % 2 = 1 THEN Null
    ELSE AbstractAt(path)

\* the nested mapping whose leaves sit at the paths of S (keys in the order a, b)
RECURSIVE MkTree(_, _, _)
MkTree(S, prefix, style) ==
    LET under(k) == {Tail(p) : p \in {q \in S : q[1] = k /\ Len(q) > 1}}
        item(k) == IF <<k>> \in S
                   THEN << <<k, LeafAt(prefix \o <<k>>, style)>> >>
                   ELSE IF under(k) # {}
                   THEN << <<k, MkTree(under(k), prefix \o <<k>>, style)>> >>
                   ELSE <<>>
    IN  Dict(item(KA) \o item(KB))

TreeInputs ==
    {MkTree(S, <<>>, style) :
        S \in {X \in SUBSET CombPaths(MaxDepth) : PrefixFree(X)}, style \in LeafStyles}

-----------------------------------------------------------------------------
(* Idle values: the part of the state a specification does not use *)

NoValue == [t |-> "none"]
CodecIdle == [pc |-> "idle", tree |-> NoValue, flat |-> NoValue, out |-> NoValue]
ZfIdle == [pc |-> "idle", name |-> <<>>, field |-> NoValue, zoom |-> 0, out |-> NoValue]
MainIdle ==
    /\ pc = "idle" /\ args = NoValue /\ writer_loads = 0 /\ raw = NoValue /\ cfg = NoValue
    /\ registry = <<>> /\ loads = <<>> /\ steps = <<>> /\ error = "none"
    /\ cache = NoValue /\ last = NoValue
mainvars == <<pc, args, writer_loads, raw, cfg, registry, loads, steps, error, cache, last>>

-----------------------------------------------------------------------------
(* The tree codec as a run: flatten a tree, then unflatten the result *)

InitTree ==
    /\ \E t \in TreeInputs :
          codec = [pc |-> "start", tree |-> t, flat |-> NoValue, out |-> NoValue]
    /\ zf = ZfIdle
    /\ MainIdle

\* the path/value pairs of _flatten_tree, held in a dict as params_at_zoom does
FlattenTree ==
    /\ codec.pc = "start"
    /\ codec' = [codec EXCEPT !.pc = "flat",
                   !.flat = DictFromPairs(flatten_tree(codec.tree, <<>>), 1, Dict(<<>>))]
    /\ UNCHANGED <<zf, mainvars>>

UnflattenTree ==
    /\ codec.pc = "flat"
    /\ codec' = [codec EXCEPT !.pc = "done", !.out = unflatten_tree(codec.flat)]
    /\ UNCHANGED <<zf, mainvars>>

NextTree == FlattenTree \/ UnflattenTree
SpecTree == InitTree /\ [][NextTree]_vars

\* C1: for every nested mapping t whose keys hold no "/", unflattening the
\* flattened t gives back a tree equal to t: no leaf is lost, overwritten or moved.
C1_RoundTrip == codec.pc = "done" => PyEq(codec.out, codec.tree)

\* a tree of depth MaxDepth that comes back without one of its leaves
C1_Witness_LeafLost ==
    /\ codec.pc = "done" /\ ~IsErr(codec.out)
    /\ Len(flatten_tree(codec.out, <<>>)) < Len(flatten_tree(codec.tree, <<>>))

\* the same, for trees with at most two levels of groups above a leaf
RECURSIVE Depth(_)
Depth(v) ==
    IF ~IsBranch(v) \/ v.items = <<>> THEN 0
    ELSE 1 + Depth(v.items[CHOOSE i \in 1..Len(v.items) :
                        \A j \in 1..Len(v.items) :
                            Depth(v.items[j][2]) <= Depth(v.items[i][2])][2])
C1_RoundTripShallow ==
    (codec.pc = "done" /\ Depth(codec.tree) <= 3) => PyEq(codec.out, codec.tree)

-----------------------------------------------------------------------------
(* Keys of the configuration document *)

K_input == <<"i", "n", "p", "u", "t">>
K_output == <<"o", "u", "t", "p", "u", "t">>
K_pyramid == <<"p", "y", "r", "a", "m", "i", "d">>
K_zoom_levels == <<"z", "o", "o", "m", "_", "l", "e", "v", "e", "l", "s">>
K_bounds == <<"b", "o", "u", "n", "d", "s">>
K_process_file == <<"p", "r", "o", "c", "e", "s", "s", "_", "f", "i", "l", "e">>
K_config_dir == <<"c", "o", "n", "f", "i", "g", "_", "d", "i", "r">>
K_baselevels == <<"b", "a", "s", "e", "l", "e", "v", "e", "l", "s">>
K_process_minzoom == <<"p", "r", "o", "c", "e", "s", "s", "_", "m", "i", "n", "z", "o", "o", "m">>
K_process_maxzoom == <<"p", "r", "o", "c", "e", "s", "s", "_", "m", "a", "x", "z", "o", "o", "m">>
K_process_zoom == <<"p", "r", "o", "c", "e", "s", "s", "_", "z", "o", "o", "m">>
K_process_bounds == <<"p", "r", "o", "c", "e", "s", "s", "_", "b", "o", "u", "n", "d", "s">>
K_metatiling == <<"m", "e", "t", "a", "t", "i", "l", "i", "n", "g">>
K_pixelbuffer == <<"p", "i", "x", "e", "l", "b", "u", "f", "f", "e", "r">>
K_init_zoom_levels == <<"i", "n", "i", "t", "_", "z", "o", "o", "m", "_", "l", "e", "v", "e", "l", "s">>
K_init_bounds == <<"i", "n", "i", "t", "_", "b", "o", "u", "n", "d", "s">>
K_mapchete_file == <<"m", "a", "p", "c", "h", "e", "t", "e", "_", "f", "i", "l", "e">>
K_input_files == <<"i", "n", "p", "u", "t", "_", "f", "i", "l", "e", "s">>
K_grid == <<"g", "r", "i", "d">>
K_type == <<"t", "y", "p", "e">>
K_min == <<"m", "i", "n">>
K_max == <<"m", "a", "x">>
ZOOM == <<"z", "o", "o", "m">>

\* parameters with special functions which cannot be used for user parameters
\* the list without the deprecated names: what C12 is sensitive to
RESERVED_PARAMETERS_Current ==
    {K_baselevels, K_pyramid, K_zoom_levels, K_bounds, K_process_file, K_config_dir}
RESERVED_PARAMETERS ==
    {K_baselevels, K_pyramid, K_zoom_levels, K_bounds, K_process_file, K_config_dir,
     K_process_minzoom, K_process_maxzoom, K_process_zoom, K_process_bounds,
     K_metatiling, K_pixelbuffer}

-----------------------------------------------------------------------------
(* int(): decimal digits, an optional sign, surrounding whitespace *)

DigitChars == <<"0", "1", "2", "3", "4", "5", "6", "7", "8", "9">>
IsDigit(c) == \E i \in 1..10 : DigitChars[i] = c
DigitVal(c) == (CHOOSE i \in 1..10 : DigitChars[i] = c) - 1
RECURSIVE DigitsVal(_)
DigitsVal(s) ==
    IF s = <<>> THEN 0 ELSE 10 * DigitsVal(SubSeq(s, 1, Len(s) - 1)) + DigitVal(s[Len(s)])
\* the value of an optional sign and the digits after it
SignedVal(negative, digits) ==
    IF digits # <<>> /\ \A i \in 1..Len(digits) : IsDigit(digits[i])
    THEN [ok |-> TRUE, n |-> IF negative THEN 0 - DigitsVal(digits) ELSE DigitsVal(digits)]
    ELSE [ok |-> FALSE, n |-> 0]
ParseStripped(body) ==
    IF body # <<>> /\ body[1] \in {"-", "+"}
    THEN SignedVal(body[1] = "-", Tail(body))
    ELSE SignedVal(FALSE, body)
\* int(s): [ok, n]
ParseInt(s) == ParseStripped(Strip(s, Whitespace))

\* the characters of a str, as the set str.strip(chars) works with
CharsOf(s) == {s[i] : i \in 1..Len(s)}

\* int(input_string) without the strip: what C3 is sensitive to
strip_zoom_Unstripped(input_string, strip_string) == ParseInt(input_string)
\* _strip_zoom(input_string, strip_string): the zoom level, or ok = FALSE where the
\* code raises MapcheteConfigError
strip_zoom(input_string, strip_string) == ParseInt(Strip(input_string, CharsOf(strip_string)))

-----------------------------------------------------------------------------
(* _element_at_zoom and _raw_at_zoom *)

ConfigError == Raise("MapcheteConfigError")

\* zoom <rel> n, for the five relations of a zoom level statement
Compare(rel, zoom, n) ==
    IF rel = <<"=">> THEN zoom = n
    ELSE IF rel = <<"<", "=">> THEN zoom <= n
    ELSE IF rel = <<">", "=">> THEN zoom >= n
    ELSE IF rel = <<"<">> THEN zoom < n
    ELSE zoom > n

\* "if zoom <rel> _strip_zoom(cleaned, rel): return element"; falling off the
\* end of the function returns None
ZoomTest(n, rel, element, zoom) ==
    IF ~n.ok THEN ConfigError
    ELSE IF Compare(rel, zoom, n.n) THEN element ELSE Null

\* the relation a cleaned key starts with, in the order the code tries them
Relations == << <<"=">>, <<"<", "=">>, <<">", "=">>, <<"<">>, <<">">> >>
ZoomRelation(cleaned, element, zoom) ==
    IF \E i \in 1..Len(Relations) : StartsWith(cleaned, Relations[i])
    THEN LET rel == Relations[CHOOSE i \in 1..Len(Relations) :
                        /\ StartsWith(cleaned, Relations[i])
                        /\ \A j \in 1..(i - 1) : ~StartsWith(cleaned, Relations[j])]
         IN  ZoomTest(strip_zoom(cleaned, rel), rel, element, zoom)
    ELSE Null

\* the branch of _element_at_zoom for an element that is no dict, under a str name
ZoomStatement(name, element, zoom) ==
    IF StartsWith(name, ZOOM)
    THEN ZoomRelation(Strip(Strip(name, CharsOf(ZOOM)), Whitespace), element, zoom)
    ELSE element

RECURSIVE element_at_zoom(_, _, _)
RECURSIVE SubElements(_, _, _, _, _)
\* the body of the loop of _element_at_zoom for the sub-element sub_name, already
\* filtered to out_element: under "input" every key is kept, elsewhere None is dropped
KeepSubElement(name, element, zoom, i, out_elements, sub_name, out_element) ==
    IF IsErr(out_element) THEN out_element
    ELSE IF name = K_input \/ ~IsNull(out_element)
    THEN SubElements(name, element, zoom, i + 1, DictSet(out_elements, sub_name, out_element))
    ELSE SubElements(name, element, zoom, i + 1, out_elements)
\* the loop of _element_at_zoom over the items of a dict: out_elements, or the
\* exception the first failing sub-element raises
SubElements(name, element, zoom, i, out_elements) ==
    IF i > Len(element.items) THEN out_elements
    ELSE KeepSubElement(name, element, zoom, i, out_elements, element.items[i][1],
                        element_at_zoom(element.items[i][1], element.items[i][2], zoom))

\* what _element_at_zoom returns for a dict once out_elements is built
Collapse(name, out_elements) ==
    IF IsErr(out_elements) THEN out_elements
    ELSE IF Len(out_elements.items) = 1 /\ name # K_input THEN out_elements.items[1][2]
    ELSE IF Len(out_elements.items) = 0 THEN Null
    ELSE out_elements

\* _element_at_zoom(name, element, zoom): the element filtered by zoom level;
\* Null is Python's None
element_at_zoom(name, element, zoom) ==
    IF IsDict(element)
    THEN IF DictHas(element, FORMAT) THEN element
         ELSE Collapse(name, SubElements(name, element, zoom, 1, Dict(<<>>)))
    ELSE ZoomStatement(name, element, zoom)

\* the parameters of one zoom level: the inner loop of _raw_at_zoom
RECURSIVE ParamsFrom(_, _, _, _)
AddParam(config, zoom, i, params, name, out_element) ==
    IF IsErr(out_element) THEN out_element
    ELSE IF ~IsNull(out_element)
    THEN ParamsFrom(config, zoom, i + 1, DictSet(params, name, out_element))
    ELSE ParamsFrom(config, zoom, i + 1, params)
ParamsFrom(config, zoom, i, params) ==
    IF i > Len(config.items) THEN params
    ELSE IF config.items[i][1] \in RESERVED_PARAMETERS
    THEN ParamsFrom(config, zoom, i + 1, params)
    ELSE AddParam(config, zoom, i, params, config.items[i][1],
                  element_at_zoom(config.items[i][1], config.items[i][2], zoom))

\* _raw_at_zoom(config, zooms): [ok, at], at the parameter dict of each zoom level
RawAtZoomResult(at) ==
    IF \E i \in 1..Len(at) : IsErr(at[i])
    THEN [ok |-> FALSE, at |-> <<>>]
    ELSE [ok |-> TRUE, at |-> at]
raw_at_zoom(config, zooms) ==
    RawAtZoomResult([i \in 1..Len(zooms) |-> ParamsFrom(config, zooms[i], 1, Dict(<<>>))])

-----------------------------------------------------------------------------
(* Zoom-dependent fields the checks draw from *)

\* the decimal digits of n >= 0
RECURSIVE Digits(_)
Digits(n) == IF n < 10 THEN <<DigitChars[n + 1]>> ELSE Digits(n \div 10) \o <<DigitChars[(n % 10) + 1]>>
KeyStyles == {"tight", "spaced"}
\* "zoom<3", or "zoom < 3"
ZoomKey(rel, n, style) ==
    IF style = "tight" THEN ZOOM \o rel \o Digits(n)
    ELSE ZOOM \o <<" ">> \o rel \o <<" ">> \o Digits(n)

Scalars == {Str(<<"A">>), Str(<<"B">>), PyInt(0)}
\* {"zoom<N": A, "zoom>=N": B}, in either order of the two keys
SplitField(N, A, B, swapped, style) ==
    LET below == <<ZoomKey(<<"<">>, N, style), A>>
        above == <<ZoomKey(<<">", "=">>, N, style), B>>
    IN  Dict(IF swapped THEN <<above, below>> ELSE <<below, above>>)
Thresholds == 0..(MaxZoom + 1) \cup {10 + MaxZoom}
ZoomsAsked == 0..(MaxZoom + 1) \cup {10 + MaxZoom}
SplitFields ==
    {SplitField(N, A, B, swapped, style) :
        N \in Thresholds, A \in Scalars, B \in Scalars, swapped \in BOOLEAN, style \in KeyStyles}
FieldNames == {<<"f">>, ZOOM \o <<"e", "d">>}

\* the kinds of value a key can hold: a scalar, a plain mapping, an abstract
\* input (a mapping with a "format" key)
PlainMapping == Dict(<< <<KA, Str(<<"A">>)>>, <<KB, PyInt(0)>> >>)
AbstractInput == Dict(<< <<FORMAT, Str(<<"x">>)>>, <<KA, Str(<<"A">>)>> >>)
Children == {Str(<<"A">>), PyInt(0), PlainMapping, AbstractInput}
RelationKinds == {<<"=">>, <<"<">>, <<"<", "=">>, <<">">>, <<">", "=">>}
\* {"zoom<rel>N": child}
GuardedField(rel, N, child, style) == Dict(<< <<ZoomKey(rel, N, style), child>> >>)
GuardedFields ==
    {GuardedField(rel, N, child, style) :
        rel \in RelationKinds, N \in Thresholds, child \in Children, style \in KeyStyles}
\* keys that start with "zoom" and go on with something else than a relation
\* and an int: no relation at all ("zoomX", "zoom", "zoom 2", "zoom!2") ...
NoRelationKeys == {ZOOM \o <<"X">>, ZOOM, ZOOM \o <<" ", "2">>, ZOOM \o <<"!", "2">>}
\* ... or a relation with no int after it ("zoom<x", "zoom<", "zoom=<2", "zoom>=2.5")
NoOperandKeys ==
    {ZOOM \o <<"<", "x">>, ZOOM \o <<"<">>, ZOOM \o <<"=", "<", "2">>,
     ZOOM \o <<">", "=", "2", ".", "5">>}
MalformedKeys == NoRelationKeys \cup NoOperandKeys
\* {key: child}
MalformedField(key, child) == Dict(<< <<key, child>> >>)
MalformedFields == {MalformedField(key, child) : key \in MalformedKeys, child \in Scalars}
ZoomFields == SplitFields \cup GuardedFields \cup MalformedFields \cup Scalars
\* a key of one of the forms zoom=N, zoom<N, zoom<=N, zoom>N, zoom>=N
IsZoomExpression(key) ==
    \E rel \in RelationKinds, N \in Thresholds, style \in KeyStyles : key = ZoomKey(rel, N, style)

-----------------------------------------------------------------------------
(* The zoom filter as a run: resolve one field of the document at one zoom *)

InitZoom ==
    /\ \E name \in FieldNames, field \in ZoomFields, zoom \in ZoomsAsked :
          zf = [pc |-> "start", name |-> name, field |-> field, zoom |-> zoom, out |-> NoValue]
    /\ codec = CodecIdle
    /\ MainIdle

ResolveField ==
    /\ zf.pc = "start"
    /\ zf' = [zf EXCEPT !.pc = "done", !.out = element_at_zoom(zf.name, zf.field, zf.zoom)]
    /\ UNCHANGED <<codec, mainvars>>

NextZoom == ResolveField
SpecZoom == InitZoom /\ [][NextZoom]_vars

\* C3: a field {"zoom<N": A, "zoom>=N": B} with scalar A, B resolves to A at
\* every zoom below N and to B at every zoom at or above N; never to a mapping
\* holding both, never to nothing.
C3_SplitResolves ==
    \A N \in Thresholds, A \in Scalars, B \in Scalars, swapped \in BOOLEAN, style \in KeyStyles :
        (zf.pc = "done" /\ zf.field = SplitField(N, A, B, swapped, style))
            => zf.out = (IF zf.zoom < N THEN A ELSE B)
C3_Witness_BelowAndAbove ==
    /\ zf.pc = "done"
    /\ zf.field = SplitField(MaxZoom, Str(<<"A">>), Str(<<"B">>), TRUE, "spaced")
    /\ zf.zoom = MaxZoom
    /\ zf.out = Str(<<"B">>)

\* z <rel> N, as the five zoom expressions read
Satisfies(rel, z, N) ==
    CASE rel = <<"=">> -> z = N
      [] rel = <<"<">> -> z < N
      [] rel = <<"<", "=">> -> z <= N
      [] rel = <<">">> -> z > N
      [] rel = <<">", "=">> -> z >= N

\* C15: a child under a zoom-expression key (zoom=N, zoom<N, zoom<=N, zoom>N,
\* zoom>=N) is kept at zoom z if and only if z satisfies the relation against N,
\* whether the child is a scalar, a plain mapping or a mapping with a "format"
\* key.
C15_KeptIffRelationHolds ==
    \A rel \in RelationKinds, N \in Thresholds, child \in Children, style \in KeyStyles :
        (zf.pc = "done" /\ zf.field = GuardedField(rel, N, child, style))
            => zf.out = (IF Satisfies(rel, zf.zoom, N) THEN child ELSE Null)
\* the same for scalar children only
C15_ScalarKeptIffRelationHolds ==
    \A rel \in RelationKinds, N \in Thresholds, child \in Children, style \in KeyStyles :
        (zf.pc = "done" /\ zf.field = GuardedField(rel, N, child, style) /\ ~IsDict(child))
            => zf.out = (IF Satisfies(rel, zf.zoom, N) THEN child ELSE Null)
\* an abstract input under "zoom<1" is still there at zoom 2
C15_Witness_AbstractInputKept ==
    /\ zf.pc = "done"
    /\ zf.field = GuardedField(<<"<">>, 1, AbstractInput, "tight")
    /\ zf.zoom = 2
    /\ zf.out = AbstractInput
\* and so is a plain mapping
C15_Witness_PlainMappingKept ==
    /\ zf.pc = "done"
    /\ zf.field = GuardedField(<<">", "=">>, 2, PlainMapping, "spaced")
    /\ zf.zoom = 0
    /\ zf.out = PlainMapping

\* C16: a key that begins with "zoom" and whose remainder is not a relation
\* followed by an integer makes the resolution fail with a configuration error at
\* every zoom level; it is never resolved to nothing.
C16_MalformedKeyFails ==
    \A key \in MalformedKeys, child \in Scalars :
        (zf.pc = "done" /\ zf.field = MalformedField(key, child)) => zf.out = ConfigError
\* the same for the keys that do start with a relation
C16_NoOperandFails ==
    \A key \in NoOperandKeys, child \in Scalars :
        (zf.pc = "done" /\ zf.field = MalformedField(key, child)) => zf.out = ConfigError
\* "zoomX" resolved to nothing, with no error
C16_Witness_NoRelationSilent ==
    /\ zf.pc = "done"
    /\ zf.field = MalformedField(ZOOM \o <<"X">>, Str(<<"A">>))
    /\ zf.out = Null

-----------------------------------------------------------------------------
(* get_hash *)

\* hash(x) of a str: a stable value that differs for different strings
Hash(s) == [t |-> "hash", of |-> s]

\* json.dumps(x) with the default separators; a dict is written in its
\* iteration order
RECURSIVE JsonDumps(_)
RECURSIVE JsonItems(_, _)
JsonItems(items, i) ==
    IF i > Len(items) THEN <<>>
    ELSE (IF i > 1 THEN <<",", " ">> ELSE <<>>)
         \o <<"\"">> \o items[i][1] \o <<"\"", ":", " ">> \o JsonDumps(items[i][2])
         \o JsonItems(items, i + 1)
JsonDumps(x) ==
    IF IsStr(x) THEN <<"\"">> \o x.s \o <<"\"">>
    ELSE IF IsInt(x) THEN (IF x.n < 0 THEN <<"-">> \o Digits(0 - x.n) ELSE Digits(x.n))
    ELSE IF IsDict(x) THEN <<"{">> \o JsonItems(x.items, 1) \o <<"}">>
    ELSE <<"n", "u", "l", "l">>

\* get_hash(x): None for anything but a str or a dict
get_hash(x) ==
    IF IsStr(x) THEN Hash(x.s)
    ELSE IF IsDict(x) THEN Hash(JsonDumps(x))
    ELSE Null

-----------------------------------------------------------------------------
(* Geometry: a geometry is the set of grid cells it covers *)

World == {<<x, y>> : x \in 0..1, y \in 0..1}
\* box(left, bottom, right, top)
box(b) == {c \in World : b[1] <= c[1] /\ c[1] < b[3] /\ b[2] <= c[2] /\ c[2] < b[4]}
\* cascaded_union(geometries)
cascaded_union(geoms) == UNION {geoms[i] : i \in 1..Len(geoms)}
\* geometry.bounds: the envelope (left, bottom, right, top) of a geometry that is not empty
Envelope(g) ==
    LET xs == {c[1] : c \in g}
        ys == {c[2] : c \in g}
        lo(S) == CHOOSE v \in S : \A w \in S : v <= w
        hi(S) == CHOOSE v \in S : \A w \in S : v >= w
    IN  <<lo(xs), lo(ys), hi(xs) + 1, hi(ys) + 1>>
\* process_pyramid.bounds
PyramidBounds == <<0, 0, 2, 2>>

F1 == Str(<<"f", "1">>)
F2 == Str(<<"f", "2">>)
F3 == Str(<<"f", "3">>)
\* reader.bbox(): the bounding geometry of the data a declaration names
RECURSIVE DriverBbox(_)
DriverBbox(decl) ==
    IF IsDict(decl)
    THEN (IF DictHas(decl, PATH) THEN DriverBbox(DictGet(decl, PATH)) ELSE World)
    ELSE IF decl = F1 THEN {<<0, 0>>}
    ELSE IF decl = F2 THEN {<<0, 0>>, <<0, 1>>}
    ELSE IF decl = F3 THEN {<<1, 1>>}
    ELSE {<<Len(decl.s) % 2, 0>>}

-----------------------------------------------------------------------------
(* _config_to_dict, _map_to_new_config, validate_values *)

\* _config_to_dict(input_config) for a dictionary
config_to_dict(input_config) ==
    IF ~DictHas(input_config, K_config_dir) THEN ConfigError
    ELSE DictSet(input_config, K_mapchete_file, Null)

\* the pyramid entry _map_to_new_config builds from the deprecated parameters
LegacyPyramid(config) ==
    Dict(<< <<K_grid, DictGet(DictGet(config, K_output), K_type)>>,
            <<K_metatiling, DictGetDefault(config, K_metatiling, PyInt(1))>>,
            <<K_pixelbuffer, DictGetDefault(config, K_pixelbuffer, PyInt(0))>> >>)

\* the four parts of _map_to_new_config, each the config after it or the exception
MapPyramid(config) ==
    IF IsErr(config) \/ DictHas(config, K_pyramid) THEN config
    ELSE IF ~DictHas(config, K_output) THEN ConfigError
    ELSE IF ~IsDict(DictGet(config, K_output)) THEN Raise("TypeError")
    ELSE IF ~DictHas(DictGet(config, K_output), K_type) THEN Raise("KeyError")
    ELSE DictSet(config, K_pyramid, LegacyPyramid(config))
MapZoomLevels(config) ==
    IF IsErr(config) \/ DictHas(config, K_zoom_levels) THEN config
    ELSE IF DictHas(config, K_process_zoom)
    THEN DictSet(config, K_zoom_levels, DictGet(config, K_process_zoom))
    ELSE IF DictHas(config, K_process_minzoom) /\ DictHas(config, K_process_maxzoom)
    THEN DictSet(config, K_zoom_levels,
                 Dict(<< <<K_min, DictGet(config, K_process_minzoom)>>,
                         <<K_max, DictGet(config, K_process_maxzoom)>> >>))
    ELSE ConfigError
MapBounds(config) ==
    IF IsErr(config) \/ DictHas(config, K_bounds) THEN config
    ELSE IF DictHas(config, K_process_bounds)
    THEN DictSet(config, K_bounds, DictGet(config, K_process_bounds))
    ELSE DictSet(config, K_bounds, Null)
MapInput(config) ==
    IF IsErr(config) THEN config
    ELSE IF ~DictHas(config, K_input)
    THEN (IF DictHas(config, K_input_files)
          THEN DictSet(config, K_input, DictGet(config, K_input_files))
          ELSE ConfigError)
    ELSE IF DictHas(config, K_input_files) THEN ConfigError
    ELSE config

\* _map_to_new_config(config): the config in the new structure, or the exception
\* (an exception of _config_to_dict passes through)
map_to_new_config(config) == MapInput(MapBounds(MapZoomLevels(MapPyramid(config))))

\* validate_values(config, values): values a sequence of <<key, set of type tags>>
validate_values(config, values) ==
    /\ IsDict(config)
    /\ \A i \in 1..Len(values) :
          /\ DictHas(config, values[i][1])
          /\ DictGet(config, values[i][1]).t \in values[i][2]

\* the mandatory parameters and their types, as __init__ checks them
MandatoryValues ==
    << <<K_process_file, {"str"}>>, <<K_pyramid, {"dict"}>>, <<K_input, {"dict", "null"}>>,
       <<K_output, {"dict"}>>, <<K_zoom_levels, {"int", "dict"}>> >>

-----------------------------------------------------------------------------
(* zoom_levels and init_zoom_levels *)

\* range(a, b + 1)
Range(a, b) == [i \in 1..(b - a + 1) |-> a + i - 1]
Elems(seq) == {seq[i] : i \in 1..Len(seq)}
SeqMin(xs) == CHOOSE v \in Elems(xs) : \A w \in Elems(xs) : v <= w
SeqMax(xs) == CHOOSE v \in Elems(xs) : \A w \in Elems(xs) : v >= w

ZoomsFailed(kind) == [ok |-> FALSE, levels |-> <<>>, kind |-> kind]
ZoomsAre(levels) == [ok |-> TRUE, levels |-> levels, kind |-> "none"]

\* the levels of {"min": lo, "max": hi}
ZoomRange(lo, hi) == ZoomsAre(IF lo = hi THEN <<lo>> ELSE Range(lo, hi))
\* the value of self._raw["zoom_levels"] as a list of levels
ZoomsOf(raw_zooms) ==
    IF IsInt(raw_zooms) THEN ZoomsAre(<<raw_zooms.n>>)
    ELSE IF IsDict(raw_zooms)
    THEN IF ~validate_values(raw_zooms, << <<K_min, {"int"}>>, <<K_max, {"int"}>> >>)
         THEN ZoomsFailed("MapcheteConfigError")
         ELSE ZoomRange(DictGet(raw_zooms, K_min).n, DictGet(raw_zooms, K_max).n)
    ELSE ZoomsFailed("MapcheteConfigError")
\* MapcheteConfig.zoom_levels: [ok, levels, kind]
zoom_levels(raw_config) == ZoomsOf(DictGet(raw_config, K_zoom_levels))

\* init_zoom_levels checking only the lower end of a [min, max] pair: what C5
\* is sensitive to
InitZoomsOf_MinOnly(iz, declared) ==
    IF ~declared.ok THEN declared
    ELSE IF IsNull(iz) THEN declared
    ELSE IF IsInt(iz)
    THEN IF iz.n \notin Elems(declared.levels) THEN ZoomsFailed("MapcheteConfigError")
         ELSE ZoomsAre(<<iz.n>>)
    ELSE IF iz.t = "list" /\ Len(iz.xs) <= 2
    THEN IF iz.xs = <<>> THEN ZoomsFailed("ValueError")
         ELSE IF SeqMin(iz.xs) \notin Elems(declared.levels)
         THEN ZoomsFailed("MapcheteConfigError")
         ELSE ZoomsAre(Range(SeqMin(iz.xs), SeqMax(iz.xs)))
    ELSE ZoomsFailed("MapcheteConfigError")

\* the check of init_zoom_levels: iz is the zoom argument, declared the process
\* zoom levels
InitZoomsOf(iz, declared) ==
    IF ~declared.ok THEN declared
    ELSE IF IsNull(iz) THEN declared
    ELSE IF IsInt(iz)
    THEN IF iz.n \notin Elems(declared.levels) THEN ZoomsFailed("MapcheteConfigError")
         ELSE ZoomsAre(<<iz.n>>)
    ELSE IF iz.t = "list" /\ Len(iz.xs) <= 2
    THEN IF iz.xs = <<>> THEN ZoomsFailed("ValueError")
         ELSE IF \/ SeqMin(iz.xs) \notin Elems(declared.levels)
                 \/ SeqMax(iz.xs) \notin Elems(declared.levels)
         THEN ZoomsFailed("MapcheteConfigError")
         ELSE ZoomsAre(Range(SeqMin(iz.xs), SeqMax(iz.xs)))
    ELSE ZoomsFailed("MapcheteConfigError")
\* MapcheteConfig.init_zoom_levels: [ok, levels, kind]
init_zoom_levels(raw_config) ==
    InitZoomsOf(DictGet(raw_config, K_init_zoom_levels), zoom_levels(raw_config))

-----------------------------------------------------------------------------
(* bounds and init_bounds *)

\* _validate_bounds(bounds): a list of four numbers
validate_bounds(bounds) == bounds.t = "list" /\ Len(bounds.xs) = 4

\* Bounds(*_validate_bounds(b)): [ok, b]
BoundsOf(b) ==
    IF validate_bounds(b) THEN [ok |-> TRUE, b |-> b.xs] ELSE [ok |-> FALSE, b |-> <<>>]

\* MapcheteConfig.bounds: [ok, b]
process_bounds(raw_config) ==
    IF IsNull(DictGet(raw_config, K_bounds)) THEN [ok |-> TRUE, b |-> PyramidBounds]
    ELSE BoundsOf(DictGet(raw_config, K_bounds))

\* MapcheteConfig.init_bounds: [ok, b]
init_bounds(raw_config) ==
    IF IsNull(DictGet(raw_config, K_init_bounds)) THEN process_bounds(raw_config)
    ELSE BoundsOf(DictGet(raw_config, K_init_bounds))

-----------------------------------------------------------------------------
(* MapcheteConfig: state of the object under construction *)

Modes == {"memory", "continue", "readonly", "overwrite"}

\* the steps of __init__, in the order of the code
ConstructionSteps ==
    <<"Normalize", "ValidateSchema", "ValidateProcessFile", "BuildPyramids", "ValidateMode",
      "ComputeRawPerZoom", "LoadOutputDriver", "MaterializeInputs">>
\* __init__ going from the mode check straight to the output writer: what C10
\* is sensitive to
StepAfter_Skipping(step) ==
    IF step = "ValidateMode" THEN "LoadOutputDriver"
    ELSE LET i == CHOOSE j \in 1..Len(ConstructionSteps) : ConstructionSteps[j] = step
         IN  IF i = Len(ConstructionSteps) THEN "Ready" ELSE ConstructionSteps[i + 1]
\* where __init__ continues after a step that raised nothing
StepAfter(step) ==
    LET i == CHOOSE j \in 1..Len(ConstructionSteps) : ConstructionSteps[j] = step
    IN  IF i = Len(ConstructionSteps) THEN "Ready" ELSE ConstructionSteps[i + 1]

\* the attributes before __init__ has set them
CfgInit ==
    [process_file |-> FALSE, process_metatiling |-> 0, output_metatiling |-> 0,
     mode |-> "unset", zoom_levels |-> <<>>, init_zoom_levels |-> <<>>,
     params_at_zoom |-> <<>>, output |-> "unset", bounds |-> <<>>, init_bounds |-> <<>>]

NoArea == [set |-> FALSE, g |-> {}]
\* the two caches, and how often the union of line 455 has been computed so far
CacheInit == [area |-> <<>>, full |-> NoArea, unions |-> 0]

\* a step of __init__ ends with an exception: no object is returned
Raised(kind) == pc' = "Failed" /\ error' = kind
\* a step of __init__ went through
Passed(step) == pc' = StepAfter(step) /\ error' = error

\* (0) _map_to_new_config(_config_to_dict(input_config)), init_zoom_levels, init_bounds
\* and the two empty caches
Normalized(m) ==
    IF IsErr(m)
    THEN Raised(m.kind) /\ UNCHANGED <<raw, cache>>
    ELSE /\ raw' = DictSet(DictSet(m, K_init_zoom_levels, args.zoom), K_init_bounds, args.bounds)
         /\ cache' = CacheInit
         /\ Passed("Normalize")
Normalize ==
    /\ pc = "Normalize"
    /\ steps' = Append(steps, "Normalize")
    /\ Normalized(map_to_new_config(config_to_dict(args.doc)))
    /\ UNCHANGED <<codec, zf, args, writer_loads, cfg, registry, loads, last>>

\* (1) assert mandatory params are available
ValidateSchema ==
    /\ pc = "ValidateSchema"
    /\ steps' = Append(steps, "ValidateSchema")
    /\ IF validate_values(raw, MandatoryValues)
       THEN Passed("ValidateSchema")
       ELSE Raised("MapcheteConfigError")
    /\ UNCHANGED <<codec, zf, args, writer_loads, raw, cfg, registry, loads, cache, last>>

\* (2) check .py file: the file system decides
ValidateProcessFile ==
    /\ pc = "ValidateProcessFile"
    /\ steps' = Append(steps, "ValidateProcessFile")
    /\ \E found \in {"ok", "missing", "syntax"} :
          IF found = "ok"
          THEN Passed("ValidateProcessFile") /\ cfg' = [cfg EXCEPT !.process_file = TRUE]
          ELSE /\ Raised(IF found = "missing" THEN "MapcheteConfigError"
                         ELSE "MapcheteProcessSyntaxError")
               /\ cfg' = cfg
    /\ UNCHANGED <<codec, zf, args, writer_loads, raw, registry, loads, cache, last>>

\* self._raw["pyramid"].get("metatiling", 1)
ProcessMetatiling(raw_config) ==
    DictGetDefault(DictGet(raw_config, K_pyramid), K_metatiling, PyInt(1)).n
\* self._raw["output"].get("metatiling", process_metatiling)
OutputMetatiling(raw_config) ==
    DictGetDefault(DictGet(raw_config, K_output), K_metatiling,
                   PyInt(ProcessMetatiling(raw_config))).n
\* the guard with >= for >: what C6 is sensitive to
MetatilingTooBig_Strict(output_metatiling, process_metatiling) ==
    output_metatiling >= process_metatiling
\* the guard of step (3): output tiles bigger than process tiles cannot be handled
MetatilingTooBig(output_metatiling, process_metatiling) ==
    output_metatiling > process_metatiling

\* (3) set process and output pyramids
PyramidsBuilt(pm, om) ==
    IF MetatilingTooBig(om, pm) \/ ~DictHas(DictGet(raw, K_pyramid), K_grid)
    THEN Raised("MapcheteConfigError") /\ cfg' = cfg
    ELSE /\ cfg' = [cfg EXCEPT !.process_metatiling = pm, !.output_metatiling = om]
         /\ Passed("BuildPyramids")
BuildPyramids ==
    /\ pc = "BuildPyramids"
    /\ steps' = Append(steps, "BuildPyramids")
    /\ PyramidsBuilt(ProcessMetatiling(raw), OutputMetatiling(raw))
    /\ UNCHANGED <<codec, zf, args, writer_loads, raw, registry, loads, cache, last>>

\* the mode check with a fifth mode let through: what C7 is sensitive to
KnownMode_Delete(mode) == mode \in Modes \cup {"delete"}
\* mode in ["memory", "continue", "readonly", "overwrite"]
KnownMode(mode) == mode \in Modes

\* (4) set mode
ValidateMode ==
    /\ pc = "ValidateMode"
    /\ steps' = Append(steps, "ValidateMode")
    /\ IF KnownMode(args.mode)
       THEN Passed("ValidateMode") /\ cfg' = [cfg EXCEPT !.mode = args.mode]
       ELSE Raised("MapcheteConfigError") /\ cfg' = cfg
    /\ UNCHANGED <<codec, zf, args, writer_loads, raw, registry, loads, cache, last>>

\* (5) prepare process parameters per zoom level without initializing input and
\* output classes: init_zoom_levels (and with it zoom_levels), then _raw_at_zoom
ParamsComputed(izl, r) ==
    IF ~izl.ok THEN Raised(izl.kind) /\ cfg' = cfg
    ELSE IF ~r.ok THEN Raised("MapcheteConfigError") /\ cfg' = cfg
    ELSE /\ cfg' = [cfg EXCEPT
                      !.zoom_levels = zoom_levels(raw).levels,
                      !.init_zoom_levels = izl.levels,
                      !.params_at_zoom =
                          [z \in Elems(izl.levels) |->
                              r.at[CHOOSE i \in 1..Len(izl.levels) : izl.levels[i] = z]]]
         /\ Passed("ComputeRawPerZoom")
ComputeRawPerZoom ==
    /\ pc = "ComputeRawPerZoom"
    /\ steps' = Append(steps, "ComputeRawPerZoom")
    /\ ParamsComputed(init_zoom_levels(raw), raw_at_zoom(raw, init_zoom_levels(raw).levels))
    /\ UNCHANGED <<codec, zf, args, writer_loads, raw, registry, loads, cache, last>>

\* os.path.normpath(os.path.join(config_dir, path)) for a relative one-segment path
JoinPath(dir, path) ==
    IF StartsWith(path, Slash) THEN path
    ELSE IF dir # <<>> /\ dir[Len(dir)] = "/" THEN dir \o path
    ELSE dir \o Slash \o path

\* output_params.update(path=...): joined to config_dir, or None
WithPath(output_params, config_dir) ==
    DictSet(output_params, PATH,
            IF DictHas(output_params, PATH) /\ IsStr(DictGet(output_params, PATH))
            THEN Str(JoinPath(config_dir.s, DictGet(output_params, PATH).s))
            ELSE Null)
\* output_params.update(type=..., pixelbuffer=..., metatiling=...) from the output pyramid
WithPyramid(output_params, grid, pixelbuffer, metatiling) ==
    DictSet(DictSet(DictSet(output_params, K_type, grid), K_pixelbuffer, pixelbuffer),
            K_metatiling, PyInt(metatiling))
\* the output parameters after the update() calls of MapcheteConfig.output
OutputParams(raw_config, output_metatiling) ==
    WithPyramid(WithPath(DictGet(raw_config, K_output), DictGet(raw_config, K_config_dir)),
                DictGet(DictGet(raw_config, K_pyramid), K_grid),
                DictGetDefault(DictGet(raw_config, K_output), K_pixelbuffer, PyInt(0)),
                output_metatiling)

\* the per-zoom parameters after the update: their "output" entry is the updated
\* dict itself when _element_at_zoom returned it as it is (it carries a format)
SharedOutput(params, output_params, shared) ==
    [z \in DOMAIN params |->
        IF shared THEN DictSet(params[z], K_output, output_params) ELSE params[z]]

\* the checks of MapcheteConfig.output and the calls of the writer driver
OutputLoaded(output_params, updated) ==
    /\ raw' = DictSet(raw, K_output, output_params)
    /\ IF ~DictHas(output_params, FORMAT)
       THEN Raised("MapcheteConfigError") /\ cfg' = updated /\ UNCHANGED writer_loads
       ELSE \E driver \in {"unavailable", "load_fails", "invalid", "ok"} :
               /\ writer_loads' = IF driver = "unavailable" THEN writer_loads
                                  ELSE writer_loads + 1
               /\ IF driver = "ok"
                  THEN Passed("LoadOutputDriver") /\ cfg' = [updated EXCEPT !.output = "writer"]
                  ELSE /\ Raised(IF driver = "load_fails" THEN "DriverException"
                                 ELSE "MapcheteConfigError")
                       /\ cfg' = updated

\* (6) initialize output: MapcheteConfig.output. The dict it updates is
\* self._raw["output"] itself. The writer driver decides whether the format is
\* available, whether the load raises and whether is_valid_with_config raises.
LoadOutputDriver ==
    /\ pc = "LoadOutputDriver"
    /\ steps' = Append(steps, "LoadOutputDriver")
    /\ OutputLoaded(OutputParams(raw, cfg.output_metatiling),
                    [cfg EXCEPT !.params_at_zoom =
                        SharedOutput(cfg.params_at_zoom, OutputParams(raw, cfg.output_metatiling),
                                     DictHas(DictGet(raw, K_output), FORMAT))])
    /\ UNCHANGED <<codec, zf, args, registry, loads, cache, last>>

\* raw_inputs of MapcheteConfig.input: the declarations of the initialized zoom
\* levels, keyed by their hash
RECURSIVE RawInputsFromPairs(_, _, _)
RawInputsFromPairs(pairs, i, raw_inputs) ==
    IF i > Len(pairs) THEN raw_inputs
    ELSE RawInputsFromPairs(pairs, i + 1,
            IF IsNull(pairs[i][2]) THEN raw_inputs
            ELSE DictSet(raw_inputs, get_hash(pairs[i][2]), pairs[i][2]))
RECURSIVE RawInputsFromZooms(_, _, _, _)
RawInputsFromZooms(params, zooms, i, raw_inputs) ==
    IF i > Len(zooms) THEN raw_inputs
    ELSE RawInputsFromZooms(params, zooms, i + 1,
            IF DictHas(params[zooms[i]], K_input)
            THEN RawInputsFromPairs(flatten_tree(DictGet(params[zooms[i]], K_input), <<>>),
                                    1, raw_inputs)
            ELSE raw_inputs)
RawInputs(params, zooms) == RawInputsFromZooms(params, zooms, 1, Dict(<<>>))

\* isinstance(v, six.string_types) or isinstance(v, dict)
LoadableInput(v) == IsStr(v) \/ IsDict(v)

\* the first item of raw_inputs that is neither a str nor a dict (n + 1: none)
FirstInvalid(raw_inputs) ==
    IF \A i \in 1..Len(raw_inputs) : LoadableInput(raw_inputs[i][2])
    THEN Len(raw_inputs) + 1
    ELSE CHOOSE i \in 1..Len(raw_inputs) :
            /\ ~LoadableInput(raw_inputs[i][2])
            /\ \A j \in 1..(i - 1) : LoadableInput(raw_inputs[j][2])

\* the loop keeping the handles loaded before the failure as the registry: what
\* C11 is sensitive to
InputsLoaded_Partial(raw_inputs, firstInvalid) ==
    \E failAt \in 0..Len(raw_inputs), how \in {"load", "bbox"} :
        IF failAt # 0 /\ failAt < firstInvalid
        THEN /\ loads' = [i \in 1..failAt |-> raw_inputs[i][2]]
             /\ registry' = [i \in 1..(failAt - 1) |-> <<raw_inputs[i][1], Handle(i)>>]
             /\ Raised(IF how = "load" THEN "MapcheteDriverError" ELSE "DriverException")
        ELSE IF firstInvalid <= Len(raw_inputs)
        THEN /\ loads' = [i \in 1..(firstInvalid - 1) |-> raw_inputs[i][2]]
             /\ registry' = registry
             /\ Raised("MapcheteConfigError")
        ELSE /\ loads' = [i \in 1..Len(raw_inputs) |-> raw_inputs[i][2]]
             /\ registry' = [i \in 1..Len(raw_inputs) |-> <<raw_inputs[i][1], Handle(i)>>]
             /\ Passed("MaterializeInputs")

\* the loop of MapcheteConfig.input over raw_inputs; the reader driver decides
\* whether a load or the bbox() call after it raises (failAt = 0: none does)
InputsLoaded(raw_inputs, firstInvalid) ==
    \E failAt \in 0..Len(raw_inputs), how \in {"load", "bbox"} :
        IF failAt # 0 /\ failAt < firstInvalid
        THEN /\ loads' = [i \in 1..failAt |-> raw_inputs[i][2]]
             /\ registry' = registry
             /\ Raised(IF how = "load" THEN "MapcheteDriverError" ELSE "DriverException")
        ELSE IF firstInvalid <= Len(raw_inputs)
        THEN /\ loads' = [i \in 1..(firstInvalid - 1) |-> raw_inputs[i][2]]
             /\ registry' = registry
             /\ Raised("MapcheteConfigError")
        ELSE /\ loads' = [i \in 1..Len(raw_inputs) |-> raw_inputs[i][2]]
             /\ registry' = [i \in 1..Len(raw_inputs) |-> <<raw_inputs[i][1], Handle(i)>>]
             /\ Passed("MaterializeInputs")

\* the delimiters: init_bounds and bounds are computed (and validated) first
Delimited(ib, pb, raw_inputs) ==
    IF ~ib.ok \/ ~pb.ok
    THEN Raised("MapcheteConfigError") /\ UNCHANGED <<cfg, registry, loads>>
    ELSE /\ cfg' = [cfg EXCEPT !.bounds = pb.b, !.init_bounds = ib.b]
         /\ InputsLoaded(raw_inputs, FirstInvalid(raw_inputs))

\* (7) initialize input items: MapcheteConfig.input
MaterializeInputs ==
    /\ pc = "MaterializeInputs"
    /\ steps' = Append(steps, "MaterializeInputs")
    /\ Delimited(init_bounds(raw), process_bounds(raw),
                 RawInputs(cfg.params_at_zoom, cfg.init_zoom_levels).items)
    /\ UNCHANGED <<codec, zf, args, writer_loads, raw, cache, last>>

-----------------------------------------------------------------------------
(* Queries on a constructed configuration *)

\* self.input[identity]: the handle, or KeyError
RegistryGet(reg, identity) ==
    IF \E i \in 1..Len(reg) : reg[i][1] = identity
    THEN reg[CHOOSE i \in 1..Len(reg) : reg[i][1] = identity][2]
    ELSE Raise("KeyError")

\* zoom in self.init_zoom_levels
ZoomAvailable(zoom, levels) == zoom \in Elems(levels)

\* flat_inputs[k] = None, or self.input[get_hash(v)]
RECURSIVE FlatInputs(_, _, _, _)
AddFlatInput(pairs, reg, i, flat_inputs, h) ==
    FlatInputs(pairs, reg, i + 1, IF IsErr(h) THEN h ELSE DictSet(flat_inputs, pairs[i][1], h))
\* flat_inputs of params_at_zoom: each declaration replaced by its handle
FlatInputs(pairs, reg, i, flat_inputs) ==
    IF i > Len(pairs) \/ IsErr(flat_inputs) THEN flat_inputs
    ELSE AddFlatInput(pairs, reg, i, flat_inputs,
                      IF IsNull(pairs[i][2]) THEN Null
                      ELSE RegistryGet(reg, get_hash(pairs[i][2])))

\* out["input"] = _unflatten_tree(flat_inputs)
WithInputs(out, flat_inputs) ==
    IF IsErr(flat_inputs) THEN flat_inputs
    ELSE IF IsErr(unflatten_tree(flat_inputs)) THEN unflatten_tree(flat_inputs)
    ELSE DictSet(out, K_input, unflatten_tree(flat_inputs))

\* the snapshot built from the parameters of one zoom level
Snapshot(params, reg) ==
    IF DictHas(params, K_input)
    THEN WithInputs(DictSet(params, K_input, Dict(<<>>)),
                    FlatInputs(flatten_tree(DictGet(params, K_input), <<>>), reg, 1, Dict(<<>>)))
    ELSE DictSet(params, K_input, Dict(<<>>))

\* params_at_zoom answering a zoom level that was not initialized with the
\* snapshot of the first initialized one: what C9 is sensitive to
params_at_zoom_Fallback(zoom) ==
    IF ZoomAvailable(zoom, cfg.init_zoom_levels)
    THEN Snapshot(cfg.params_at_zoom[zoom], registry)
    ELSE IF cfg.init_zoom_levels = <<>> THEN Raise("ValueError")
    ELSE Snapshot(cfg.params_at_zoom[cfg.init_zoom_levels[1]], registry)
\* MapcheteConfig.params_at_zoom(zoom): the snapshot, or the exception
params_at_zoom(zoom) ==
    IF ~ZoomAvailable(zoom, cfg.init_zoom_levels) THEN Raise("ValueError")
    ELSE Snapshot(cfg.params_at_zoom[zoom], registry)

\* the handles whose bounding geometries _area_at_zoom unites: one per item of
\* the zoom's input dict whose value is not None (an item without a registry
\* entry gives a KeyError)
LiveHandles(live, reg) == [i \in 1..Len(live) |-> RegistryGet(reg, get_hash(live[i][2]))]
InputBoxes(input_at_zoom, reg) ==
    LiveHandles(SelectSeq(input_at_zoom.items, LAMBDA item : ~IsNull(item[2])), reg)

\* self._cache_area_at_zoom[zoom] = g
Cached(area, zoom, g) == [ok |-> TRUE, g |-> g, area |-> area @@ (zoom :> g)]

\* input_union.intersection(box(*self.init_bounds)) if self.init_bounds else input_union
Clipped(input_union, bounds) ==
    IF bounds # <<>> THEN input_union \cap box(bounds) ELSE input_union

\* the area of the handles `boxes`, or the KeyError
AreaOfBoxes(area, zoom, boxes) ==
    IF \E i \in 1..Len(boxes) : IsErr(boxes[i])
    THEN [ok |-> FALSE, g |-> {}, area |-> area]
    ELSE Cached(area, zoom,
                Clipped(cascaded_union([i \in 1..Len(boxes) |-> DriverBbox(loads[boxes[i].h])]),
                        cfg.init_bounds))

\* the area of a zoom level that is not in the cache yet
AreaOfParams(area, zoom, params) ==
    IF DictHas(params, K_input)
    THEN AreaOfBoxes(area, zoom, InputBoxes(DictGet(params, K_input), registry))
    ELSE Cached(area, zoom, box(cfg.init_bounds))

\* MapcheteConfig._area_at_zoom(zoom) on the cache `area`: [ok, g, area]
area_of_zoom(area, zoom) ==
    IF zoom \in DOMAIN area THEN [ok |-> TRUE, g |-> area[zoom], area |-> area]
    ELSE AreaOfParams(area, zoom, cfg.params_at_zoom[zoom])

\* the list comprehension of area_at_zoom(None): the areas of the zoom levels
\* in turn, each one cached as it is computed, until one raises
RECURSIVE AreasFrom(_, _, _, _)
\* the union keeping only the area of the last zoom level: what C8 is sensitive to
AreasNext_Last(zooms, i, one, union) ==
    IF ~one.ok THEN one ELSE AreasFrom(zooms, i + 1, one.area, one.g)
AreasNext(zooms, i, one, union) ==
    IF ~one.ok THEN one ELSE AreasFrom(zooms, i + 1, one.area, union \cup one.g)
AreasFrom(zooms, i, area, union) ==
    IF i > Len(zooms) THEN [ok |-> TRUE, g |-> union, area |-> area]
    ELSE AreasNext(zooms, i, area_of_zoom(area, zooms[i]), union)

\* not self._cache_full_process_area: None, or a geometry that is empty
FullAreaMissing(full) == ~full.set \/ full.g = {}

\* the outcome of area_at_zoom for an integer zoom: [ok, kind, g, cache]
OneArea(c, one) ==
    [ok |-> one.ok, kind |-> IF one.ok THEN "none" ELSE "KeyError", g |-> one.g,
     cache |-> [c EXCEPT !.area = one.area]]
\* the outcome of area_at_zoom(None) when the union has to be computed
FullArea(c, all) ==
    [ok |-> all.ok, kind |-> IF all.ok THEN "none" ELSE "KeyError", g |-> all.g,
     cache |-> [area |-> all.area,
                full |-> IF all.ok THEN [set |-> TRUE, g |-> all.g] ELSE c.full,
                unions |-> IF all.ok THEN c.unions + 1 ELSE c.unions]]

\* MapcheteConfig.area_at_zoom(zoom) on the caches c; zoom is Null or a PyInt:
\* [ok, kind, g, cache]
area_at_zoom(c, zoom) ==
    IF IsInt(zoom)
    THEN IF ~ZoomAvailable(zoom.n, cfg.init_zoom_levels)
         THEN [ok |-> FALSE, kind |-> "ValueError", g |-> {}, cache |-> c]
         ELSE OneArea(c, area_of_zoom(c.area, zoom.n))
    ELSE IF FullAreaMissing(c.full)
    THEN FullArea(c, AreasFrom(cfg.init_zoom_levels, 1, c.area, {}))
    ELSE [ok |-> TRUE, kind |-> "none", g |-> c.full.g, cache |-> c]

QueryZooms == 0..MaxZoom
AreaArgs == {PyInt(z) : z \in QueryZooms} \cup {Null}

Outcome(op, zoom, ok, result) == [op |-> op, zoom |-> zoom, ok |-> ok, result |-> result]

ParamsAtZoom ==
    /\ pc = "Ready"
    /\ \E z \in QueryZooms :
          last' = Outcome("params_at_zoom", PyInt(z), ~IsErr(params_at_zoom(z)),
                          params_at_zoom(z))
    /\ UNCHANGED <<codec, zf, pc, args, writer_loads, raw, cfg, registry, loads, steps,
                   error, cache>>

\* the caches and the outcome after area_at_zoom(zoom) gave r
AreaAnswered(zoom, r) ==
    /\ r.cache.unions <= MaxUnions
    /\ cache' = r.cache
    /\ last' = Outcome("area_at_zoom", zoom, r.ok,
                       IF r.ok THEN [t |-> "geometry", g |-> r.g] ELSE Raise(r.kind))
AreaAtZoom ==
    /\ pc = "Ready"
    /\ \E zoom \in AreaArgs : AreaAnswered(zoom, area_at_zoom(cache, zoom))
    /\ UNCHANGED <<codec, zf, pc, args, writer_loads, raw, cfg, registry, loads, steps, error>>

\* Bounds(*self.area_at_zoom(zoom).bounds): the second call of area_at_zoom
BoundsOfArea(zoom, second) ==
    /\ second.cache.unions <= MaxUnions
    /\ cache' = second.cache
    /\ last' = Outcome("bounds_at_zoom", zoom, second.ok,
                       IF second.ok THEN List(Envelope(second.g)) ELSE Raise(second.kind))
\* () if self.area_at_zoom(zoom).is_empty else ...: the first call of area_at_zoom
BoundsAnswered(zoom, first) ==
    IF ~first.ok
    THEN /\ cache' = first.cache
         /\ last' = Outcome("bounds_at_zoom", zoom, FALSE, Raise(first.kind))
    ELSE IF first.g = {}
    THEN /\ first.cache.unions <= MaxUnions
         /\ cache' = first.cache
         /\ last' = Outcome("bounds_at_zoom", zoom, TRUE, List(<<>>))
    ELSE BoundsOfArea(zoom, area_at_zoom(first.cache, zoom))
\* bounds_at_zoom(zoom): () for an empty area, else its envelope
BoundsAtZoom ==
    /\ pc = "Ready"
    /\ \E zoom \in AreaArgs : BoundsAnswered(zoom, area_at_zoom(cache, zoom))
    /\ UNCHANGED <<codec, zf, pc, args, writer_loads, raw, cfg, registry, loads, steps, error>>

\* an update that is carried out, loading every reader again: what C20 is
\* sensitive to
Update_Applying ==
    /\ pc = "Ready"
    /\ Len(loads) <= 2 * MaxDepth
    /\ loads' = loads \o loads
    /\ last' = Outcome("update", Null, TRUE, Null)
    /\ UNCHANGED <<codec, zf, pc, args, writer_loads, raw, cfg, registry, steps, error, cache>>
\* update(...): not implemented
Update ==
    /\ pc = "Ready"
    /\ last' = Outcome("update", Null, FALSE, Raise("NotImplementedError"))
    /\ UNCHANGED <<codec, zf, pc, args, writer_loads, raw, cfg, registry, loads, steps,
                   error, cache>>

-----------------------------------------------------------------------------
(* Configurations the checks draw from *)

K_f == <<"f">>
KG == <<"g">>
GTIFF == Str(<<"G", "T", "i", "f", "f">>)
GEODETIC == Str(<<"g", "e", "o", "d", "e", "t", "i", "c">>)

\* {"min": lo, "max": hi}
MinMax(lo, hi) == Dict(<< <<K_min, PyInt(lo)>>, <<K_max, PyInt(hi)>> >>)
\* a pyramid / an output entry; metatiling Null leaves the key out
PyramidOf(metatiling) ==
    Dict(<< <<K_grid, GEODETIC>> >>
         \o (IF IsNull(metatiling) THEN <<>> ELSE << <<K_metatiling, metatiling>> >>))
OutputOf(metatiling) ==
    Dict(<< <<FORMAT, GTIFF>> >>
         \o (IF IsNull(metatiling) THEN <<>> ELSE << <<K_metatiling, metatiling>> >>))
DocOf(input, zooms, pyramid, output) ==
    Dict(<< <<K_process_file, Str(<<"p", ".", "p", "y">>)>>,
            <<K_config_dir, Str(<<"/", "c">>)>>,
            <<K_input, input>>, <<K_output, output>>, <<K_pyramid, pyramid>>,
            <<K_zoom_levels, zooms>>,
            <<K_f, SplitField(1, Str(<<"A">>), Str(<<"B">>), FALSE, "tight")>> >>)

\* a document without the items whose key is in `keys`
Without(doc, keys) == Dict(SelectSeq(doc.items, LAMBDA item : item[1] \notin keys))

\* the comb of depth d in which every group has two children
DeepInput(d) ==
    MkTree({Spine(k) \o <<KA>> : k \in 1..(d - 1)} \cup {Spine(d)}, <<>>, "files")

InputTrees ==
    { Dict(<< <<KA, F1>> >>),
      Dict(<< <<KA, F1>>, <<KB, F1>> >>),
      Dict(<< <<KA, Dict(<< <<ZoomKey(<<"<">>, 2, "tight"), F1>>,
                            <<ZoomKey(<<">", "=">>, 2, "tight"), F2>> >>)>>,
              <<KB, F2>> >>),
      Dict(<< <<KA, Dict(<< <<ZoomKey(<<"<">>, 1, "tight"), F1>> >>)>>,
              <<KB, Dict(<< <<ZoomKey(<<">", "=">>, 1, "tight"), F3>> >>)>> >>),
      Dict(<< <<KA, Dict(<< <<ZoomKey(<<"<">>, 1, "tight"), F1>> >>)>> >>),
      Dict(<< <<KG, Dict(<< <<KA, F1>>, <<KB, F2>> >>)>> >>),
      Dict(<< <<KG, Dict(<< <<KA, F1>>,
                            <<KB, Dict(<< <<ZoomKey(<<">", "=">>, 2, "tight"), F2>> >>)>> >>)>> >>),
      DeepInput(MaxDepth),
      Dict(<< <<KA, Dict(<< <<FORMAT, Str(<<"x">>)>>, <<PATH, F1>> >>)>>,
              <<KB, Dict(<< <<PATH, F1>>, <<FORMAT, Str(<<"x">>)>> >>)>>,
              <<KG, Dict(<< <<FORMAT, Str(<<"x">>)>>, <<PATH, F1>> >>)>> >>),
      Dict(<< <<KA, F3>>, <<KB, PyInt(5)>> >>),
      Null }

DeclaredZooms == {PyInt(1), MinMax(0, MaxZoom - 1)}
ZoomArgs ==
    {Null, PyInt(0), PyInt(MaxZoom), List(<<0, 1>>), List(<<1, 0>>), List(<<1>>),
     List(<<1, MaxZoom>>), List(<<>>), List(<<0, 1, 2>>)}
LeftColumn == List(<<0, 0, 1, 2>>)
BoundsArgs == {Null, LeftColumn}

BaseInput == Dict(<< <<KA, F1>> >>)
BaseDoc == DocOf(BaseInput, PyInt(1), PyramidOf(Null), OutputOf(Null))
Metatilings == {Null, PyInt(1), PyInt(2), PyInt(4)}

\* the plain document with every reserved name in it
RECURSIVE WithItems(_, _, _)
WithItems(doc, items, i) ==
    IF i > Len(items) THEN doc ELSE WithItems(DictSet(doc, items[i][1], items[i][2]), items, i + 1)
ReservedDoc ==
    WithItems(BaseDoc,
              << <<K_baselevels, MinMax(0, 1)>>, <<K_process_minzoom, PyInt(0)>>,
                 <<K_process_maxzoom, PyInt(1)>>, <<K_process_zoom, PyInt(1)>>,
                 <<K_process_bounds, LeftColumn>>, <<K_bounds, Null>>,
                 <<K_metatiling, PyInt(1)>>, <<K_pixelbuffer, PyInt(0)>> >>, 1)

\* the plain document with scalar user parameters: s, n and zoomed
K_zoomed == ZOOM \o <<"e", "d">>
ScalarDoc ==
    WithItems(BaseDoc,
              << <<<<"s">>, Str(<<"A">>)>>, <<<<"n">>, PyInt(0)>>, <<K_zoomed, PyInt(5)>> >>, 1)

\* documents with one thing wrong (or deprecated, or unusual) each
OddDocs ==
    { ReservedDoc, ScalarDoc,
      Without(BaseDoc, {K_config_dir}),
      Without(BaseDoc, {K_input}),
      Without(BaseDoc, {K_pyramid}),
      Without(BaseDoc, {K_process_file}),
      DictSet(DictSet(Without(BaseDoc, {K_pyramid, K_zoom_levels}), K_metatiling, PyInt(2)),
              K_output, DictSet(OutputOf(PyInt(1)), K_type, GEODETIC)),
      DictSet(DictSet(DictSet(Without(BaseDoc, {K_pyramid, K_zoom_levels}),
                              K_process_minzoom, PyInt(0)), K_process_maxzoom, PyInt(1)),
              K_output, DictSet(OutputOf(Null), K_type, GEODETIC)),
      DictSet(BaseDoc, K_pyramid, GEODETIC),
      DictSet(BaseDoc, K_pyramid, Dict(<< <<K_metatiling, PyInt(2)>> >>)),
      DictSet(BaseDoc, K_output, Dict(<< <<PATH, Str(<<"o">>)>> >>)),
      DictSet(BaseDoc, K_output, DictSet(OutputOf(Null), PATH, Str(<<"o">>))),
      DictSet(BaseDoc, K_zoom_levels, Dict(<< <<K_min, PyInt(0)>> >>)),
      DictSet(BaseDoc, K_zoom_levels, MinMax(2, 1)),
      DictSet(BaseDoc, K_f, Dict(<< <<ZOOM \o <<"<", "x">>, PyInt(1)>>, <<KA, PyInt(2)>> >>)),
      DictSet(BaseDoc, K_bounds, LeftColumn),
      DictSet(BaseDoc, K_bounds, List(<<0, 0, 1>>)) }

ArgsOf(doc, zoom, bounds, mode) == [doc |-> doc, zoom |-> zoom, bounds |-> bounds, mode |-> mode]

\* inputs and zoom levels vary, the rest is plain
InputCases ==
    {ArgsOf(DocOf(input, zooms, PyramidOf(Null), OutputOf(Null)), zoom, bounds, "continue") :
        input \in InputTrees, zooms \in DeclaredZooms, zoom \in ZoomArgs, bounds \in BoundsArgs}
\* metatilings and modes vary
PyramidCases ==
    {ArgsOf(DocOf(BaseInput, PyInt(1), PyramidOf(pm), OutputOf(om)), Null, Null, mode) :
        pm \in Metatilings, om \in Metatilings, mode \in Modes \cup {"delete"}}
\* one defect each
OddCases ==
    {ArgsOf(doc, Null, bounds, "memory") :
        doc \in OddDocs, bounds \in {Null, List(<<0, 0, 1>>)}}

-----------------------------------------------------------------------------
(* The configuration object: construction, then queries *)

Init ==
    /\ args \in InputCases \cup PyramidCases \cup OddCases
    /\ pc = "Normalize"
    /\ raw = NoValue
    /\ cfg = CfgInit
    /\ cache = NoValue
    /\ registry = <<>>
    /\ loads = <<>>
    /\ writer_loads = 0
    /\ steps = <<>>
    /\ error = "none"
    /\ last = NoValue
    /\ codec = CodecIdle
    /\ zf = ZfIdle

Next ==
    \/ Normalize
    \/ ValidateSchema
    \/ ValidateProcessFile
    \/ BuildPyramids
    \/ ValidateMode
    \/ ComputeRawPerZoom
    \/ LoadOutputDriver
    \/ MaterializeInputs
    \/ ParamsAtZoom
    \/ AreaAtZoom
    \/ BoundsAtZoom
    \/ Update

Spec == Init /\ [][Next]_vars

-----------------------------------------------------------------------------
(* Properties of the configuration object *)

\* __init__ has started this step
Started(step) == step \in Elems(steps)
\* the step __init__ started last
LastStep == steps[Len(steps)]
\* __init__ raised in this step
FailedIn(step) == pc = "Failed" /\ steps # <<>> /\ LastStep = step
\* the step raised nothing
PassedStep(step) == Started(step) /\ ~FailedIn(step)

\* the (path, declaration) pairs of the zoom-filtered input tree of zoom z
DeclaredLeaves(z) ==
    IF DictHas(cfg.params_at_zoom[z], K_input)
    THEN flatten_tree(DictGet(cfg.params_at_zoom[z], K_input), <<>>)
    ELSE <<>>
\* the (path, handle) pairs of the snapshot params_at_zoom(z) returns
SnapshotLeaves(z) ==
    IF IsErr(params_at_zoom(z)) THEN <<>>
    ELSE flatten_tree(DictGet(params_at_zoom(z), K_input), <<>>)
\* two paths bound to identical declarations hold the same handle
SameHandle(declared1, declared2, held1, held2) ==
    \A i \in 1..Len(declared1), j \in 1..Len(declared2) :
        (~IsNull(declared1[i][2]) /\ PyEq(declared1[i][2], declared2[j][2]))
            => \A k \in 1..Len(held1), l \in 1..Len(held2) :
                  (held1[k][1] = declared1[i][1] /\ held2[l][1] = declared2[j][1])
                      => held1[k][2] = held2[l][2]

\* C2: when construction succeeds, the reader driver has been invoked exactly
\* once for each distinct input declaration of the initialized zoom levels, and
\* in the snapshots of params_at_zoom any two input paths bound to identical
\* declarations, at the same or at different zoom levels, hold the same handle.
C2_OneHandlePerDeclaration ==
    pc = "Ready" =>
        /\ \A i, j \in 1..Len(loads) : PyEq(loads[i], loads[j]) => i = j
        /\ \A z \in Elems(cfg.init_zoom_levels) :
              \A i \in 1..Len(DeclaredLeaves(z)) :
                  ~IsNull(DeclaredLeaves(z)[i][2])
                      => \E k \in 1..Len(loads) : PyEq(loads[k], DeclaredLeaves(z)[i][2])
        /\ \A z1, z2 \in Elems(cfg.init_zoom_levels) :
              SameHandle(DeclaredLeaves(z1), DeclaredLeaves(z2),
                         SnapshotLeaves(z1), SnapshotLeaves(z2))
\* a constructed configuration whose reader was invoked twice for one declaration
C2_Witness_LoadedTwice ==
    pc = "Ready" /\ \E i, j \in 1..Len(loads) : i # j /\ PyEq(loads[i], loads[j])

\* the input tree with each declaration replaced by the handle the registry
\* holds under its identity, each null left as it is
RECURSIVE Resolved(_, _)
Resolved(tree, reg) ==
    IF IsBranch(tree)
    THEN Dict([i \in 1..Len(tree.items) |->
                 <<tree.items[i][1], Resolved(tree.items[i][2], reg)>>])
    ELSE IF IsNull(tree) THEN Null
    ELSE RegistryGet(reg, get_hash(tree))

\* params_at_zoom(z) has just returned a snapshot for a zoom with inputs
SnapshotReturned ==
    /\ pc = "Ready" /\ last # NoValue /\ last.op = "params_at_zoom" /\ last.ok
    /\ DictHas(cfg.params_at_zoom[last.zoom.n], K_input)

\* C4: every input leaf of the snapshot params_at_zoom(z) sits at the same nested
\* path as in the zoom-filtered input tree for z: each declaration is replaced by
\* the handle stored under its identity, each null stays null, and no path is
\* added, dropped or merged, for grouped inputs of any depth.
C4_SnapshotKeepsPaths ==
    SnapshotReturned
        => PyEq(DictGet(last.result, K_input),
                Resolved(DictGet(cfg.params_at_zoom[last.zoom.n], K_input), registry))
\* a snapshot of the comb of depth MaxDepth
C4_Witness_DeepSnapshot ==
    /\ SnapshotReturned
    /\ DictGet(cfg.params_at_zoom[last.zoom.n], K_input) = DeepInput(MaxDepth)

\* the levels a zoom argument asks for: an integer, or a [min, max] pair
ZoomArgGiven == IsInt(args.zoom) \/ (args.zoom.t = "list" /\ Len(args.zoom.xs) \in 1..2)
Requested ==
    IF IsInt(args.zoom) THEN {args.zoom.n} ELSE SeqMin(args.zoom.xs)..SeqMax(args.zoom.xs)

\* C5: construction succeeds only if the initialized zoom levels are a subset of
\* the declared ones: an integer or a [min, max] pair with a level outside the
\* declared set makes the constructor fail with a configuration error, and in
\* every constructed configuration init_zoom_levels is a subset of zoom_levels.
C5_InitZoomsWithinDeclared ==
    /\ pc = "Ready" => Elems(cfg.init_zoom_levels) \subseteq Elems(cfg.zoom_levels)
    /\ (/\ Started("ComputeRawPerZoom") /\ ZoomArgGiven /\ zoom_levels(raw).ok
        /\ ~(Requested \subseteq Elems(zoom_levels(raw).levels)))
           => FailedIn("ComputeRawPerZoom") /\ error = "MapcheteConfigError"
\* a pair whose lower end is declared and whose upper end is not
C5_Witness_UpperEndOutside ==
    /\ FailedIn("ComputeRawPerZoom") /\ error = "MapcheteConfigError"
    /\ args.zoom = List(<<1, MaxZoom>>)
    /\ DictGet(raw, K_zoom_levels) = MinMax(0, MaxZoom - 1)

\* the pyramid of the document names a grid
GridGiven == DictHas(DictGet(raw, K_pyramid), K_grid)

\* C6: the constructor fails with a configuration error whenever the output
\* metatiling is greater than the process metatiling, the pyramid step succeeds
\* (for a pyramid with a grid) whenever it is less or equal, the output
\* metatiling defaulting to the process metatiling; so every constructed
\* configuration has output metatiling <= process metatiling.
C6_OutputMetatilingBounded ==
    /\ pc = "Ready" => cfg.output_metatiling <= cfg.process_metatiling
    /\ (Started("BuildPyramids") /\ OutputMetatiling(raw) > ProcessMetatiling(raw))
           => FailedIn("BuildPyramids") /\ error = "MapcheteConfigError"
    /\ (Started("BuildPyramids") /\ GridGiven /\ OutputMetatiling(raw) <= ProcessMetatiling(raw))
           => PassedStep("BuildPyramids")
    /\ (PassedStep("BuildPyramids") /\ ~DictHas(DictGet(args.doc, K_output), K_metatiling))
           => cfg.output_metatiling = cfg.process_metatiling
\* output metatiling 4 with process metatiling 2
C6_Witness_FourOverTwo ==
    /\ FailedIn("BuildPyramids") /\ error = "MapcheteConfigError"
    /\ ProcessMetatiling(raw) = 2 /\ OutputMetatiling(raw) = 4

\* C7: the mode of a constructed configuration is one of memory, readonly,
\* continue, overwrite: any other mode fails with a configuration error before
\* any output writer or input reader is loaded, and each of the four is accepted.
C7_ModeIsOneOfFour ==
    /\ pc = "Ready" => cfg.mode \in {"memory", "readonly", "continue", "overwrite"}
    /\ (Started("ValidateMode") /\ args.mode \notin {"memory", "readonly", "continue", "overwrite"})
           => /\ FailedIn("ValidateMode") /\ error = "MapcheteConfigError"
              /\ writer_loads = 0 /\ loads = <<>> /\ registry = <<>>
    /\ (Started("ValidateMode") /\ args.mode \in {"memory", "readonly", "continue", "overwrite"})
           => PassedStep("ValidateMode")
    /\ (pc # "idle" /\ args.mode \notin {"memory", "readonly", "continue", "overwrite"})
           => writer_loads = 0 /\ loads = <<>>
\* mode "delete"
C7_Witness_Delete == FailedIn("ValidateMode") /\ args.mode = "delete" /\ writer_loads = 0

\* area_at_zoom(None) has just answered
FullAreaAnswered ==
    pc = "Ready" /\ last # NoValue /\ last.op = "area_at_zoom" /\ IsNull(last.zoom)

UnavailableZoomAsked ==
    /\ pc = "Ready" /\ last' # last
    /\ last'.op \in {"params_at_zoom", "area_at_zoom"}
    /\ IsInt(last'.zoom) /\ last'.zoom.n \notin Elems(cfg.init_zoom_levels)

\* C9: params_at_zoom(zoom) and area_at_zoom(zoom) fail with an error for every
\* integer zoom that is not an initialized zoom level, declared or not, and the
\* failed call leaves the registry and the area caches unchanged.
C9_UnavailableZoomFails ==
    [][UnavailableZoomAsked
          => /\ ~last'.ok /\ last'.result = Raise("ValueError")
             /\ registry' = registry /\ loads' = loads /\ cache' = cache]_vars
\* a declared zoom level that was not initialized, asked for after an area was cached
C9_Witness_DeclaredNotInitialized ==
    /\ pc = "Ready" /\ last # NoValue /\ last.op = "area_at_zoom" /\ IsInt(last.zoom)
    /\ last.zoom.n \in Elems(cfg.zoom_levels) /\ last.zoom.n \notin Elems(cfg.init_zoom_levels)
    /\ ~last.ok /\ DOMAIN cache.area # {}

\* C10: construction runs normalize, validate schema, validate process file,
\* build pyramids, validate mode, compute per-zoom raw parameters, load the
\* output writer, materialize inputs in this order; a step starts only after all
\* earlier ones succeeded, the first failure ends construction with an error,
\* nothing runs after it, no step is retried and no object is returned.
C10_StepsInOrder ==
    [][/\ steps' # steps
          => /\ Len(steps) < 8 /\ error = "none"
             /\ steps' = Append(steps,
                    <<"Normalize", "ValidateSchema", "ValidateProcessFile", "BuildPyramids",
                      "ValidateMode", "ComputeRawPerZoom", "LoadOutputDriver",
                      "MaterializeInputs">>[Len(steps) + 1])
             /\ pc = steps'[Len(steps')]
       /\ pc = "Failed"
          => /\ pc' = "Failed" /\ steps' = steps /\ error' = error
             /\ loads' = loads /\ writer_loads' = writer_loads /\ registry' = registry
             /\ last' = last
       /\ (pc # "Failed" /\ pc' = "Failed") => (steps' # steps /\ error' # "none")
       /\ (pc # "Ready" /\ pc' = "Ready") => (Len(steps') = 8 /\ error' = "none")
       /\ pc # "Ready" => (last' = last /\ last = NoValue)
       /\ pc' = "Failed" => registry' = <<>>]_vars
\* the output writer failed: no input reader was loaded and no object exists
C10_Witness_WriterFailed ==
    FailedIn("LoadOutputDriver") /\ Len(steps) = 7 /\ loads = <<>> /\ last = NoValue

\* the declarations MapcheteConfig.input has to load, in the order of the loop
InputsToLoad == RawInputs(cfg.params_at_zoom, cfg.init_zoom_levels).items
\* the reader driver raised while loading a declaration
ReaderLoadFailed == FailedIn("MaterializeInputs") /\ error = "MapcheteDriverError"

\* C11: if the reader driver fails while loading a declaration, materialization
\* stops at that declaration, the failure is raised as MapcheteDriverError, no
\* further declaration is loaded and no registry, not even one of the handles
\* loaded so far, becomes visible.
C11_LoadFailureAborts ==
    [][/\ (pc = "MaterializeInputs" /\ pc' = "Failed" /\ error' = "MapcheteDriverError")
          => /\ registry' = <<>> /\ last' = NoValue
             /\ Len(loads') \in 1..Len(InputsToLoad)
             /\ \A i \in 1..Len(loads') : loads'[i] = InputsToLoad[i][2]
       /\ ReaderLoadFailed => (loads' = loads /\ registry' = registry /\ pc' = pc)
       /\ (pc = "MaterializeInputs" /\ Len(loads') < Len(InputsToLoad))
          => (pc' = "Failed" /\ registry' = <<>>)]_vars
\* the second of three declarations fails to load
C11_Witness_SecondOfThree ==
    ReaderLoadFailed /\ Len(loads) = 2 /\ Len(InputsToLoad) >= 3

\* params_at_zoom(z) has just returned a snapshot
SnapshotAnswered == pc = "Ready" /\ last # NoValue /\ last.op = "params_at_zoom" /\ last.ok

\* C12: for every document and every initialized zoom level, the snapshot of
\* params_at_zoom has none of the reserved top-level keys (pyramid, zoom_levels,
\* bounds, process_file, config_dir, baselevels, and the deprecated
\* process_minzoom, process_maxzoom, process_zoom, process_bounds, metatiling,
\* pixelbuffer) as a user parameter.
C12_NoReservedKeyInSnapshot ==
    SnapshotAnswered
        => \A k \in {K_pyramid, K_zoom_levels, K_bounds, K_process_file, K_config_dir,
                     K_baselevels, K_process_minzoom, K_process_maxzoom, K_process_zoom,
                     K_process_bounds, K_metatiling, K_pixelbuffer} :
              ~DictHas(last.result, k)
\* a snapshot of a document that has every reserved key, next to a user parameter
C12_Witness_EveryReservedKey ==
    /\ SnapshotAnswered
    /\ \A k \in RESERVED_PARAMETERS : DictHas(raw, k)
    /\ DictHas(last.result, K_f)

\* area_at_zoom(z) has just answered for an initialized zoom level z
ZoomAreaAnswered ==
    /\ pc = "Ready" /\ last # NoValue /\ last.op = "area_at_zoom" /\ IsInt(last.zoom)
    /\ last.zoom.n \in Elems(cfg.init_zoom_levels)
\* the declarations bound at zoom z: the non-null leaves of the resolved input subtree
BoundAt(z) == SelectSeq(DeclaredLeaves(z), LAMBDA leaf : ~IsNull(leaf[2]))
\* the union of the bounding geometries of the handles of these declarations
HandlesUnion(bound) ==
    UNION {DriverBbox(loads[RegistryGet(registry, get_hash(bound[i][2])).h]) : i \in 1..Len(bound)}
\* the area the inputs bound at zoom z give
InputArea(z) ==
    IF BoundAt(z) = <<>> THEN box(cfg.init_bounds)
    ELSE HandlesUnion(BoundAt(z)) \cap box(cfg.init_bounds)

\* C13: for every initialized zoom level z, area_at_zoom(z) is the union of the
\* bounding geometries of every non-null input handle of the zoom's resolved input
\* subtree, intersected with the initialized bounds, for inputs directly under
\* "input" and for inputs inside groups; with no input bound at z it is the box of
\* the initialized bounds.
C13_AreaIsUnionOfInputs ==
    ZoomAreaAnswered => (last.ok /\ last.result.g = InputArea(last.zoom.n))
\* the area of a zoom level whose inputs sit in a group
C13_Witness_GroupedInputs ==
    /\ ZoomAreaAnswered /\ ~last.ok
    /\ \E i \in 1..Len(BoundAt(last.zoom.n)) :
          \E j \in 1..Len(BoundAt(last.zoom.n)[i][1]) : BoundAt(last.zoom.n)[i][1][j] = "/"

\* C14: the global area, area_at_zoom(None), is computed at most once per
\* configuration object: every call after the first returns the memoized value
\* without computing the union again, also when the global area is empty.
C14_FullAreaComputedOnce == pc = "Ready" => cache.unions <= 1
\* an empty global area, asked for a second time
C14_Witness_EmptyAreaAskedAgain ==
    /\ pc = "Ready" /\ cache.full.set /\ cache.full.g = {} /\ cache.unions = 2
    /\ cfg.init_zoom_levels # <<>>

-----------------------------------------------------------------------------
\* the top-level parameters of the document the claim is about: the key is not
\* reserved and no zoom expression, the value a non-null scalar
UserScalars ==
    {i \in 1..Len(raw.items) :
        /\ raw.items[i][1] \notin RESERVED_PARAMETERS
        /\ ~IsZoomExpression(raw.items[i][1])
        /\ IsStr(raw.items[i][2]) \/ IsInt(raw.items[i][2])}

\* C17: a key/value pair whose key is no zoom expression and whose value is no
\* mapping passes through the zoom resolution unchanged: every non-reserved
\* top-level user parameter with a non-null scalar value is in the snapshot of
\* every initialized zoom level, with the declared value.
C17_ScalarParamInSnapshot ==
    SnapshotAnswered =>
        \A i \in UserScalars :
            /\ DictHas(last.result, raw.items[i][1])
            /\ DictGet(last.result, raw.items[i][1]) = raw.items[i][2]
\* the same for the keys that do not begin with "zoom"
C17_PlainKeyInSnapshot ==
    SnapshotAnswered =>
        \A i \in UserScalars :
            ~StartsWith(raw.items[i][1], ZOOM)
                => /\ DictHas(last.result, raw.items[i][1])
                   /\ DictGet(last.result, raw.items[i][1]) = raw.items[i][2]
\* the resolution of one scalar under a key that does not begin with "zoom"
C17_PlainKeyPassesThrough ==
    (zf.pc = "done" /\ zf.field \in Scalars /\ ~StartsWith(zf.name, ZOOM)) => zf.out = zf.field
\* the parameter zoomed: 5 is in no snapshot, while s and n are
C17_Witness_ZoomedDropped ==
    /\ SnapshotAnswered
    /\ \E i \in UserScalars : raw.items[i][1] = K_zoomed
    /\ ~DictHas(last.result, K_zoomed)
    /\ DictHas(last.result, <<"s">>) /\ DictGet(last.result, <<"s">>) = Str(<<"A">>)
    /\ DictHas(last.result, <<"n">>) /\ DictGet(last.result, <<"n">>) = PyInt(0)

-----------------------------------------------------------------------------
\* a value that depends on the zoom: a mapping whose keys are zoom expressions
IsZoomConditional(v) ==
    /\ IsBranch(v) /\ v.items # <<>>
    /\ \A i \in 1..Len(v.items) : IsZoomExpression(v.items[i][1])
\* the input paths a document declares: a group adds its key to the path, a
\* declaration (conditional on the zoom or not) ends it
RECURSIVE DocumentPaths(_, _)
PathsUnder(path, v) ==
    IF IsBranch(v) /\ ~IsZoomConditional(v) THEN DocumentPaths(v, path) ELSE {path}
DocumentPaths(tree, prefix) ==
    UNION {PathsUnder(IF prefix = <<>> THEN tree.items[i][1]
                      ELSE prefix \o Slash \o tree.items[i][1],
                      tree.items[i][2]) : i \in 1..Len(tree.items)}
\* the flattened input paths of the zoom-filtered tree of zoom z
PathsAt(z) == {DeclaredLeaves(z)[i][1] : i \in 1..Len(DeclaredLeaves(z))}
\* the per-zoom parameters of a document with an input tree are there
InputsResolved ==
    /\ PassedStep("ComputeRawPerZoom")
    /\ DictHas(raw, K_input) /\ IsDict(DictGet(raw, K_input))
Grouped(paths) == \E p \in paths : \E i \in 1..Len(p) : p[i] = "/"

\* C18: every input path declared in the document is present in the resolved
\* input tree of every initialized zoom level, bound to a declaration or to
\* null: the set of flattened input paths is the same at all zoom levels,
\* directly under "input" and inside nested groups.
C18_InputPathsPreserved ==
    InputsResolved =>
        \A z \in Elems(cfg.init_zoom_levels) :
            PathsAt(z) = DocumentPaths(DictGet(raw, K_input), <<>>)
\* the same for the documents whose inputs are all directly under "input"
C18_TopLevelPathsPreserved ==
    (InputsResolved /\ ~Grouped(DocumentPaths(DictGet(raw, K_input), <<>>))) =>
        \A z \in Elems(cfg.init_zoom_levels) :
            PathsAt(z) = DocumentPaths(DictGet(raw, K_input), <<>>)
\* g/a and g/b at zoom 2, but only g at zoom 0
C18_Witness_GroupCollapsed ==
    /\ InputsResolved
    /\ {0, 2} \subseteq Elems(cfg.init_zoom_levels)
    /\ DocumentPaths(DictGet(raw, K_input), <<>>) = {KG \o Slash \o KA, KG \o Slash \o KB}
    /\ PathsAt(2) = {KG \o Slash \o KA, KG \o Slash \o KB}
    /\ PathsAt(0) = {KG}

-----------------------------------------------------------------------------
\* the declarations of the initialized zoom levels, nulls left out
Declarations ==
    UNION {{DeclaredLeaves(z)[i][2] : i \in 1..Len(DeclaredLeaves(z))} \ {Null} :
            z \in Elems(cfg.init_zoom_levels)}
\* the readers of a document with an input tree are loaded
InputsMaterialized == InputsResolved /\ PassedStep("MaterializeInputs")

\* C19: get_hash gives equal identities to structurally-equal input
\* declarations: equal path strings hash equal, and two mappings with the same
\* key/value pairs hash equal whatever the order of their keys, so that they
\* share one registry entry.
C19_EqualDeclarationsEqualIdentity ==
    InputsMaterialized =>
        \A d1 \in Declarations, d2 \in Declarations :
            PyEq(d1, d2) => /\ get_hash(d1) = get_hash(d2)
                            /\ RegistryGet(registry, get_hash(d1)) = RegistryGet(registry, get_hash(d2))
\* the same for path strings only
C19_EqualPathsEqualIdentity ==
    InputsMaterialized =>
        \A d1 \in Declarations, d2 \in Declarations :
            (IsStr(d1) /\ PyEq(d1, d2))
                => /\ get_hash(d1) = get_hash(d2)
                   /\ RegistryGet(registry, get_hash(d1)) = RegistryGet(registry, get_hash(d2))
\* {format: x, path: f1} and {path: f1, format: x} under two identities
C19_Witness_KeyOrderTwoIdentities ==
    /\ InputsMaterialized /\ pc = "Ready"
    /\ \E d1 \in Declarations, d2 \in Declarations :
          /\ IsDict(d1) /\ PyEq(d1, d2) /\ DictKeys(d1) # DictKeys(d2)
          /\ get_hash(d1) # get_hash(d2)
          /\ RegistryGet(registry, get_hash(d1)) # RegistryGet(registry, get_hash(d2))

-----------------------------------------------------------------------------
\* C20: once construction has completed, no params_at_zoom, area_at_zoom,
\* bounds_at_zoom or update call changes the input registry (identities and
\* handles), loads a reader or the writer again, or changes the declared and
\* initialized zoom levels and bounds; update always fails with an error and
\* changes nothing.
C20_QueriesChangeNothing ==
    [][pc = "Ready" =>
          /\ pc' = "Ready"
          /\ registry' = registry /\ loads' = loads /\ writer_loads' = writer_loads
          /\ cfg' = cfg /\ raw' = raw /\ args' = args
          /\ last' # NoValue
          /\ last'.op = "update"
                => /\ ~last'.ok /\ last'.result = Raise("NotImplementedError")
                   /\ cache' = cache]_vars
\* update has failed after a query that filled the area cache, with two
\* readers in the registry
C20_Witness_UpdateAfterQueries ==
    /\ pc = "Ready" /\ last # NoValue /\ last.op = "update" /\ ~last.ok
    /\ cache.full.set /\ Len(registry) >= 2 /\ Len(loads) >= 2

-----------------------------------------------------------------------------
\* construction failed in a call of the writer driver: load_output_writer was
\* reached, and it or is_valid_with_config raised
WriterDriverFailed == FailedIn("LoadOutputDriver") /\ writer_loads > 0
\* construction failed in a call of a reader driver: every declaration is a str
\* or a dict and a reader was asked for, so load_input_reader or bbox() raised
ReaderDriverFailed ==
    /\ FailedIn("MaterializeInputs") /\ loads # <<>>
    /\ \A i \in 1..Len(InputsToLoad) : LoadableInput(InputsToLoad[i][2])

\* C21: every failure that originates in a driver during construction surfaces
\* as MapcheteDriverError: a failure of the output writer's load, of the output
\* writer's is_valid_with_config check and of a reader's eager bbox() query,
\* as well as a failure of a reader's load.
C21_DriverFailureIsDriverError ==
    (WriterDriverFailed \/ ReaderDriverFailed) => error = "MapcheteDriverError"
\* what does hold: a driver failure surfaces as one of three kinds
C21_DriverFailureKinds ==
    /\ WriterDriverFailed => error \in {"DriverException", "MapcheteConfigError"}
    /\ ReaderDriverFailed => error \in {"DriverException", "MapcheteDriverError"}
\* is_valid_with_config raised: a MapcheteConfigError
C21_Witness_WriterInvalid == WriterDriverFailed /\ error = "MapcheteConfigError"
\* load_output_writer raised: the exception of the driver, not wrapped
C21_Witness_WriterLoadRaised == WriterDriverFailed /\ error = "DriverException"
\* bbox() of the second reader raised: the exception of the driver, not wrapped
C21_Witness_BboxRaised ==
    ReaderDriverFailed /\ error = "DriverException" /\ Len(loads) = 2
====
